---- MODULE Spec2Model ----
(***************************************************************************)
(* Model of ring_buffer<T, Allocator> (src/ring_buffer.h).                 *)
(*                                                                         *)
(* Pointers are slot offsets from buffer_start: buffer_start is 0 and      *)
(* buffer_end is cap.  A slot of the storage either holds a constructed    *)
(* element (its value) or holds none (Uninit: its bytes are indeterminate).*)
(* T is a non-trivial element type, so DestroyAll runs destructors.        *)
(***************************************************************************)
EXTENDS Integers, Sequences, FiniteSets, TLC

\* ---- bounds ------------------------------------------------------------
MaxCap == 4          \* capacities 1..MaxCap are constructed
MaxVal == 2          \* element values pushed by the caller are 1..MaxVal
MaxCapAll == 2       \* capacities of the runs that use the whole interface
MaxCapScript == 5    \* capacities of the runs that contain the scripted calls

\* ---- element values ----------------------------------------------------
DefaultVal == 0      \* T(), a value-initialised element
Uninit == -1         \* marker of a slot that holds no constructed element
Values == 1..MaxVal
AnyVal == DefaultVal..MaxVal

VARIABLES
    cap,        \* buffer_end - buffer_start
    mem,        \* the storage: slot -> value or Uninit
    front_ptr,  \* front_ptr - buffer_start
    back_ptr,   \* back_ptr - buffer_start
    count,      \* count
    eff,        \* what the last call destroyed / constructed / accessed badly
    op,         \* the last call: name, arguments, results
    model,      \* reference non-circular bounded sequence replaying the calls
    single,     \* only single-element calls have been made so far
    trip        \* push-then-pop round trip in progress since the last empty state

vars == <<cap, mem, front_ptr, back_ptr, count, eff, op, model, single, trip>>

\* ---- small helpers -----------------------------------------------------
Min(a, b) == IF a <= b THEN a ELSE b

Range(lo, hi) == [i \in 1..(IF hi > lo THEN hi - lo ELSE 0) |-> lo + i - 1]

\* input ranges of n elements: consecutive values, cyclically, from any start
BulkInputs(n) == {[i \in 1..n |-> ((s + i) % MaxVal) + 1] : s \in 0..(MaxVal - 1)}

LastN(s, n) == IF Len(s) <= n THEN s ELSE SubSeq(s, Len(s) - n + 1, Len(s))

FirstN(s, n) == IF Len(s) <= n THEN s ELSE SubSeq(s, 1, n)

\* ---- the object ----------------------------------------------------------
\* the data members, with the bookkeeping of the call in progress
Cur ==
    [cap |-> cap, mem |-> mem, front_ptr |-> front_ptr, back_ptr |-> back_ptr,
     count |-> count, des |-> <<>>, con |-> <<>>, bad |-> {}]

Buf(x) ==
    [cap |-> x.cap, mem |-> x.mem, front_ptr |-> x.front_ptr,
     back_ptr |-> x.back_ptr, count |-> x.count]

Eff(x) == [des |-> x.des, con |-> x.con, bad |-> x.bad]

InStorage(x, p) == p \in 0..(x.cap - 1)

Live(x, p) == InStorage(x, p) /\ x.mem[p] # Uninit

\* the value a read of slot p yields; a slot with no element is indeterminate
Peek(x, p) == IF InStorage(x, p) THEN x.mem[p] ELSE Uninit

\* outcomes of handing the content of a slot to the caller
Observed(v) == IF v = Uninit THEN AnyVal ELSE {v}

\* accesses through a pointer that is outside storage or at a dead slot
BadAt(x, kind, S) == {<<kind, p, InStorage(x, p)>> : p \in {q \in S : ~Live(x, q)}}

\* constructions over a slot that is outside storage or already holds an element
BadNew(x, S) ==
    {<<"construct", p, InStorage(x, p)>> :
        p \in {q \in S : ~(InStorage(x, q) /\ x.mem[q] = Uninit)}}

\* alloc_traits::construct / placement new at one slot
Construct(x, p, v) ==
    [x EXCEPT !.mem = [q \in DOMAIN @ |-> IF q = p THEN v ELSE @[q]],
              !.con = Append(@, p),
              !.bad = @ \cup BadNew(x, {p})]

\* ptr->~T()
DestroyAt(x, p) ==
    [x EXCEPT !.mem = [q \in DOMAIN @ |-> IF q = p THEN Uninit ELSE @[q]],
              !.des = Append(@, p),
              !.bad = @ \cup BadAt(x, "destroy", {p})]

destroy_through_last(x, first, last) ==
    [x EXCEPT !.mem = [q \in DOMAIN @ |->
                          IF q >= first /\ q <= last THEN Uninit ELSE @[q]],
              !.des = @ \o Range(first, last + 1),
              !.bad = @ \cup BadAt(x, "destroy", first..last)]

\* std::destroy(first, last)
destroy(x, first, last) ==
    [x EXCEPT !.mem = [q \in DOMAIN @ |->
                          IF q >= first /\ q < last THEN Uninit ELSE @[q]],
              !.des = @ \o Range(first, last),
              !.bad = @ \cup BadAt(x, "destroy", first..(last - 1))]

\* std::uninitialized_copy(first, last, dest) of the sequence in
uninitialized_copy(x, in, dest) ==
    LET R == dest..(dest + Len(in) - 1) IN
    [x EXCEPT !.mem = [q \in DOMAIN @ |->
                          IF q \in R THEN in[q - dest + 1] ELSE @[q]],
              !.con = @ \o Range(dest, dest + Len(in)),
              !.bad = @ \cup BadNew(x, R)]

\* ---- info ----------------------------------------------------------------
size(x) == x.count

capacity(x) == x.cap

reserve(x) == capacity(x) - size(x)

empty(x) == size(x) = 0

full(x) == size(x) = capacity(x)

is_linearized(x) == x.back_ptr > x.front_ptr \/ x.back_ptr = 0

\* ---- pointer stepping ----------------------------------------------------
increment_no_wrap(x, ptr) == ptr + 1

increment(x, ptr) == IF ptr + 1 = x.cap THEN 0 ELSE ptr + 1

decrement(x, ptr) == (IF ptr = 0 THEN x.cap ELSE ptr) - 1

increment_back_no_wrap(x) ==
    [x EXCEPT !.back_ptr = @ + 1, !.count = @ + 1]

increment_back(x) ==
    [x EXCEPT !.back_ptr = IF @ + 1 = x.cap THEN 0 ELSE @ + 1,
              !.count = @ + 1]

increment_front_no_wrap(x) ==
    [x EXCEPT !.front_ptr = @ + 1, !.count = @ - 1]

increment_front(x) ==
    [x EXCEPT !.front_ptr = IF @ + 1 = x.cap THEN 0 ELSE @ + 1,
              !.count = @ - 1]

decrement_back(x) ==
    [x EXCEPT !.back_ptr = (IF @ = 0 THEN x.cap ELSE @) - 1,
              !.count = @ - 1]

decrement_front(x) ==
    [x EXCEPT !.front_ptr = (IF @ = 0 THEN x.cap ELSE @) - 1,
              !.count = @ + 1]

\* 2^64 mod c: the signed offset is converted to size_type before the modulo
TwoPow64Mod(c) ==
    LET p16 == 65536 % c
        p32 == (p16 * p16) % c
    IN  (p32 * p32) % c

\* (size_type) d % c for a ptrdiff_t d
UMod(d, c) == IF d >= 0 THEN d % c ELSE (TwoPow64Mod(c) + (d % c)) % c

increment_by(x, ptr, n) == UMod((x.cap - ptr) + n, capacity(x))

decrement_by(x, ptr, n) == increment_by(x, ptr, 0 - n)

\* ---- emplace, push and pop ----------------------------------------------
emplace_back_without_checks(x, v) ==
    LET current_back_ptr == x.back_ptr IN
    Construct(increment_back(x), current_back_ptr, v)

pop_front(x) == increment_front(DestroyAt(x, x.front_ptr))

emplace_back_drop_newest(x, v) ==
    LET y == decrement_back(x) IN
    emplace_back_without_checks(IF full(x) THEN DestroyAt(y, y.back_ptr) ELSE x, v)

emplace_back_no_evict(x, v) == emplace_back_without_checks(x, v)

emplace_back(x, v) ==
    emplace_back_without_checks(IF full(x) THEN pop_front(x) ELSE x, v)

try_emplace_back_evicting(x, v) ==
    [ret |-> TRUE, x |-> emplace_back(x, v)]

\* try_emplace_back: the returned bool and the buffer after the call
try_emplace_back(x, v) ==
    IF full(x)
    THEN [ret |-> FALSE, x |-> x]
    ELSE [ret |-> TRUE, x |-> emplace_back_without_checks(x, v)]

\* pop_front(value_type&): the buffer after the call (value is Peek at front)
pop_front_value(x) ==
    LET current_front == x.front_ptr IN
    DestroyAt([increment_front(x) EXCEPT
                  !.bad = @ \cup BadAt(x, "read", {current_front})],
              current_front)

pop_back_keep_element(x) == decrement_back(x)

pop_back(x) ==
    LET y == decrement_back(x) IN DestroyAt(y, y.back_ptr)

pop_back_value(x) ==
    LET y == decrement_back(x) IN
    DestroyAt([y EXCEPT !.bad = @ \cup BadAt(x, "read", {y.back_ptr})], y.back_ptr)

\* ---- ranges and accessors ------------------------------------------------
\* get_array<OneOrTwo>(is_buffer_linearized): the span as <<first, last>>
get_array(x, OneOrTwo, is_buffer_linearized) ==
    IF OneOrTwo = 1
    THEN IF is_buffer_linearized
         THEN <<x.front_ptr, x.front_ptr + size(x)>>
         ELSE <<x.front_ptr, x.cap>>
    ELSE IF is_buffer_linearized
         THEN <<0, 0>>
         ELSE <<0, x.back_ptr>>

array_one(x) == get_array(x, 1, is_linearized(x))

array_two(x) == get_array(x, 2, is_linearized(x))

\* the slots a span covers, in order
SpanSlots(sp) == Range(sp[1], sp[2])

\* the slot operator[](index) dereferences
IndexSlot(x, index) == increment_by(x, x.front_ptr, index)

\* the slot back() dereferences
BackSlot(x) == decrement(x, x.back_ptr)

\* begin(): the iterator's ptr, with nullptr as -1 - cap (no slot)
Null == -1000

begin(x) == IF ~empty(x) THEN x.front_ptr ELSE Null

end(x) == Null

\* ring_buffer_iterator::operator++
IterInc(x, ptr) ==
    LET q == increment(x, ptr) IN IF q = x.back_ptr THEN Null ELSE q

\* slots visited by for (it = begin(); it != end(); ++it), at most k steps
RECURSIVE Walk(_, _, _)
Walk(x, ptr, k) ==
    IF ptr = Null \/ k = 0 THEN <<>>
    ELSE <<ptr>> \o Walk(x, IterInc(x, ptr), k - 1)

Traversal(x) == Walk(x, begin(x), x.cap + 1)

\* the slots of the logical content, oldest first
LogicalSlots(x) == [i \in 1..x.count |-> (x.front_ptr + i - 1) % x.cap]

Content(x, slots) == [i \in DOMAIN slots |-> Peek(x, slots[i])]

Logical(x) == Content(x, LogicalSlots(x))

\* ---- bulk insert ----------------------------------------------------------
SetBoth(x, p) == [x EXCEPT !.front_ptr = p, !.back_ptr = p]

\* the input elements first + a .. first + b; reading past last is an overrun
Slice(in, a, b) ==
    [i \in 1..(IF b > a THEN b - a ELSE 0) |->
        IF a + i \in DOMAIN in THEN in[a + i] ELSE Uninit]

Overrun(x, in, b) ==
    IF b > Len(in) THEN [x EXCEPT !.bad = @ \cup {<<"input", b, FALSE>>}] ELSE x

DestroyAll(x) ==
    LET linearized == is_linearized(x)
        array1 == get_array(x, 1, linearized)
        array2 == get_array(x, 2, linearized)
    IN  destroy(destroy(x, array1[1], array1[2]), array2[1], array2[2])

\* insert_back, available_size >= range_size
insert_back_fits(x, in, linearized) ==
    LET n == Len(in)
        x1 == [x EXCEPT !.count = @ + n]
    IN  IF x.front_ptr = 0
        THEN LET b == x.back_ptr + n IN
             [uninitialized_copy(x1, in, x.back_ptr) EXCEPT
                 !.back_ptr = IF b = x.cap THEN 0 ELSE b]
        ELSE IF x.back_ptr = 0 \/ ~linearized
        THEN [uninitialized_copy(x1, in, x.back_ptr) EXCEPT
                 !.back_ptr = x.back_ptr + n]
        ELSE LET k == Min(n, x.cap - x.back_ptr)
                 y == uninitialized_copy(x1, Slice(in, 0, k), x.back_ptr)
             IN  IF k # n
                 THEN [uninitialized_copy(y, Slice(in, k, n), 0) EXCEPT
                          !.back_ptr = n - k]
                 ELSE [y EXCEPT !.back_ptr = IF x.back_ptr + k = x.cap
                                             THEN 0 ELSE x.back_ptr + k]

\* insert_back, available_size < range_size < capacity_size
insert_back_overflow(x, in, linearized, available_size) ==
    LET n == Len(in)
        x1 == [x EXCEPT !.count = x.cap]
    IN  IF x.front_ptr = 0
        THEN LET y1 == destroy(x1, x.front_ptr, x.front_ptr + n - available_size)
                 y2 == uninitialized_copy(y1, Slice(in, 0, available_size), x.back_ptr)
                 y3 == uninitialized_copy(y2, Slice(in, available_size, n), 0)
             IN  SetBoth(y3, n - available_size)
        ELSE IF x.back_ptr = 0
        THEN LET y1 == destroy(x1, x.front_ptr, x.front_ptr + n - available_size)
                 y2 == uninitialized_copy(y1, in, x.back_ptr)
             IN  SetBoth(y2, x.back_ptr + n)
        ELSE IF ~linearized
        THEN LET array1_size == x.cap - x.front_ptr
                 evict == n - available_size
                 to_copy == Min(evict, array1_size)
                 rest == evict - to_copy
                 y1 == destroy(x1, x.front_ptr, x.front_ptr + to_copy)
                 k == available_size + to_copy
                 y2 == uninitialized_copy(y1, Slice(in, 0, k), x.back_ptr)
                 p == x.back_ptr + k
             IN  IF rest # 0
                 THEN LET y3 == destroy(y2, 0, rest)
                          y4 == uninitialized_copy(y3, Slice(in, k, n), 0)
                      IN  SetBoth(y4, n - k)
                 ELSE SetBoth(y2, IF p = x.cap THEN 0 ELSE p)
        ELSE LET evict == n - available_size
                 y1 == destroy(x1, x.front_ptr, x.front_ptr + evict)
                 k == x.cap - x.back_ptr
                 y2 == uninitialized_copy(Overrun(y1, in, k), Slice(in, 0, k), x.back_ptr)
                 y3 == uninitialized_copy(y2, Slice(in, k, n), 0)
             IN  SetBoth(y3, IF n > k THEN n - k ELSE 0)

\* insert_back, range_size >= capacity_size
insert_back_replace(x, in) ==
    LET n == Len(in)
        x1 == [x EXCEPT !.count = x.cap]
        y1 == DestroyAll(x1)
        y2 == uninitialized_copy(y1, Slice(in, n - x.cap, n), 0)
    IN  SetBoth(y2, 0)

insert_back(x, in) ==
    LET range_size == Len(in)
        linearized == is_linearized(x)
        available_size == reserve(x)
        capacity_size == capacity(x)
    IN  IF available_size >= range_size
        THEN insert_back_fits(x, in, linearized)
        ELSE IF range_size < capacity_size
        THEN insert_back_overflow(x, in, linearized, available_size)
        ELSE insert_back_replace(x, in)

\* ---- bulk pop --------------------------------------------------------------
\* std::copy(std::make_move_iterator(first), std::make_move_iterator(last), dest):
\* the slots read, and the record of reading them
MoveOut(x, first, last) ==
    [x EXCEPT !.bad = @ \cup BadAt(x, "read", first..(last - 1))]

\* a pop_front(OutputIter, size_type) that stops at the storage end
pop_front_n_one_pass(x, num0) ==
    LET f == x.front_ptr
        num == Min(Min(num0, size(x)), x.cap - f)
        y == destroy(MoveOut([x EXCEPT !.count = @ - num], f, f + num), f, f + num)
    IN  [x |-> [y EXCEPT !.front_ptr = IF f + num = x.cap THEN 0 ELSE f + num],
         from |-> Range(f, f + num)]

\* pop_front(OutputIter, size_type): the buffer after the call and the slots
\* whose elements were moved to the destination, in destination order
pop_front_n(x, num0) ==
    LET num == Min(num0, size(x)) IN
    IF num = 0 THEN [x |-> x, from |-> <<>>]
    ELSE
    LET x1 == [x EXCEPT !.count = @ - num] IN
    IF is_linearized(x1)
    THEN LET f == x.front_ptr
             y == destroy(MoveOut(x1, f, f + num), f, f + num)
         IN  [x |-> [y EXCEPT !.front_ptr = IF f + num = x.cap THEN 0 ELSE f + num],
              from |-> Range(f, f + num)]
    ELSE LET array1 == get_array(x1, 1, FALSE)
             num1 == Min(num, array1[2] - array1[1])
             y1 == destroy(MoveOut(x1, array1[1], array1[1] + num1),
                           array1[1], array1[1] + num1)
             f1 == IF x.front_ptr + num1 = x.cap THEN 0 ELSE x.front_ptr + num1
             y2 == [y1 EXCEPT !.front_ptr = f1]
             rem == num - num1
         IN  IF rem # 0
             THEN LET array2 == get_array(y2, 2, FALSE)
                      y3 == destroy(MoveOut(y2, array2[1], array2[1] + rem),
                                    array2[1], array2[1] + rem)
                  IN  [x |-> [y3 EXCEPT !.front_ptr = f1 + rem],
                       from |-> Range(array1[1], array1[1] + num1)
                                \o Range(array2[1], array2[1] + rem)]
             ELSE [x |-> y2, from |-> Range(array1[1], array1[1] + num1)]

\* pop_back(OutputIter, size_type)
pop_back_n(x, num0) ==
    LET num == Min(num0, size(x)) IN
    IF num = 0 THEN [x |-> x, from |-> <<>>]
    ELSE
    LET x1 == [x EXCEPT !.count = @ - num] IN
    IF is_linearized(x1)
    THEN LET end_copy_ptr == decrement(x1, x1.back_ptr)
             b == end_copy_ptr - num
             y == destroy(MoveOut(x1, b, end_copy_ptr), b, end_copy_ptr)
         IN  [x |-> [y EXCEPT !.back_ptr = b], from |-> Range(b, end_copy_ptr)]
    ELSE LET array2 == get_array(x1, 2, FALSE)
             num1 == Min(num, array2[2] - array2[1])
             rem == num - num1
             array1 == get_array(x1, 1, FALSE)
             s1 == array1[2] - rem
             y1 == IF rem # 0
                   THEN destroy(MoveOut(x1, s1, array1[2]), s1, array1[2])
                   ELSE x1
             s2 == array2[2] - num1
             y2 == destroy(MoveOut(y1, s2, array2[2]), s2, array2[2])
         IN  [x |-> [y2 EXCEPT !.back_ptr = decrement_by(x1, x1.back_ptr, num)],
              from |-> (IF rem # 0 THEN Range(s1, array1[2]) ELSE <<>>)
                       \o Range(s2, array2[2])]

\* ---- linearize -------------------------------------------------------------
\* std::swap(*a, *b)
Swap(x, a, b) ==
    [x EXCEPT !.mem = [q \in DOMAIN @ |->
                          IF q = a THEN Peek(x, b)
                          ELSE IF q = b THEN Peek(x, a) ELSE @[q]],
              !.bad = @ \cup BadAt(x, "read", {a, b})]

\* std::swap_ranges(first1, last1, first2)
RECURSIVE swap_ranges(_, _, _, _)
swap_ranges(x, first1, last1, first2) ==
    IF first1 >= last1 THEN x
    ELSE swap_ranges(Swap(x, first1, first2), first1 + 1, last1, first2 + 1)

rotate_nothing(x, first, middle, last) == x

\* std::rotate(first, middle, last)
rotate(x, first, middle, last) ==
    IF first = middle \/ middle = last THEN x
    ELSE LET k == last - middle IN
         [x EXCEPT !.mem = [q \in DOMAIN @ |->
                               IF q >= first /\ q < last
                               THEN IF q < first + k
                                    THEN Peek(x, middle + (q - first))
                                    ELSE Peek(x, first + (q - (first + k)))
                               ELSE @[q]],
                   !.bad = @ \cup BadAt(x, "read", first..(last - 1))]

\* for (auto& uninit : slice(first, last)) new (&uninit) T();
default_construct(x, first, last) ==
    uninitialized_copy(x, [i \in 1..(IF last > first THEN last - first ELSE 0) |-> DefaultVal],
                       first)

\* while (1) { swap_ranges(it2, end2, rit1); rit1 -= array2_size; ... }
RECURSIVE swap_down(_, _, _, _, _)
swap_down(x, it1, it2, end2, rit1) ==
    LET y == swap_ranges(x, it2, end2, rit1)
        r == rit1 - (end2 - it2)
    IN  IF r < it1 THEN [x |-> y, rit1 |-> r + (end2 - it2)]
        ELSE swap_down(y, it1, it2, end2, r)

\* while (array1_size >= distance(it2, array2.end())) it2 = swap_ranges(it1, end1, it2);
RECURSIVE swap_up(_, _, _, _, _)
swap_up(x, it1, end1, it2, end2) ==
    IF end1 - it1 >= end2 - it2
    THEN swap_up(swap_ranges(x, it1, end1, it2), it1, end1, it2 + (end1 - it1), end2)
    ELSE [x |-> x, it2 |-> it2]

\* a linearize() without the early return for a contiguous buffer
linearize_from_start(x) ==
    IF empty(x) THEN [x |-> x, ret |-> Null]
    ELSE [x |-> [x EXCEPT !.front_ptr = 0, !.back_ptr = size(x)], ret |-> 0]

\* linearize(): the buffer after the call and the returned pointer
linearize(x) ==
    IF empty(x) THEN [x |-> x, ret |-> Null]
    ELSE IF is_linearized(x) THEN [x |-> x, ret |-> x.front_ptr]
    ELSE
    LET array1 == array_one(x)
        array2 == array_two(x)
        it1 == array1[1]
        it2 == array2[1]
        end1 == array1[2]
        end2 == array2[2]
        free_mem == reserve(x)
        moved ==
            IF end1 - it1 > end2 - it2
            THEN LET y1 == default_construct(x, end2, end2 + free_mem)
                     y2 == rotate(y1, end2, it1, end1)
                     y3 == destroy(y2, x.cap - free_mem, x.cap)
                     sw == swap_down(y3, it1, it2, end2, x.cap - (end2 - it2))
                 IN  rotate(sw.x, it2, it1, sw.rit1)
            ELSE IF end2 - it2 > end1 - it1
            THEN LET sw == swap_up(x, it1, end1, it2, end2)
                     y1 == default_construct(sw.x, end2, end2 + free_mem)
                     y2 == rotate(y1, sw.it2, it1, end1)
                 IN  destroy(y2, end2, end2 + free_mem)
            ELSE x
    IN  [x |-> [moved EXCEPT !.front_ptr = 0, !.back_ptr = size(x)], ret |-> 0]

\* ---- clear, set_capacity, resize -------------------------------------------
clear(x) ==
    [DestroyAll(x) EXCEPT !.front_ptr = 0, !.back_ptr = 0, !.count = 0]

\* ring_buffer(size_type capacity_size): empty storage; des/con/bad are kept
Fresh(x, capacity_size) ==
    [x EXCEPT !.cap = capacity_size,
              !.mem = [p \in 0..(capacity_size - 1) |-> Uninit],
              !.front_ptr = 0, !.back_ptr = 0, !.count = 0]

\* what ~ring_buffer() does to the storage it releases: the accesses of
\* DestroyAll() that hit no element
Released(old) == {<<"destroy_old", ev[2], ev[3]>> : ev \in DestroyAll(old).bad}

\* set_capacity: this->~ring_buffer(); new (this) ring_buffer(capacity_size);
set_capacity(x, capacity_size) ==
    [Fresh(x, capacity_size) EXCEPT !.bad = @ \cup Released(x)]

RECURSIVE pop_back_until(_, _)
pop_back_until(x, new_size) ==
    IF size(x) > new_size THEN pop_back_until(pop_back(x), new_size) ELSE x

RECURSIVE emplace_back_until(_, _, _)
emplace_back_until(x, new_size, v) ==
    IF size(x) < new_size
    THEN emplace_back_until(emplace_back_without_checks(x, v), new_size, v)
    ELSE x

resize(x, new_size, value) ==
    LET current_cap == capacity(x) IN
    IF new_size > current_cap
    THEN LET oldsize == size(x)
             temp_buffer == x
             \* set_capacity on the moved-from object: buffer_start is null
             y0 == Fresh(x, new_size)
             linearized == is_linearized(y0)
             array1 == get_array(temp_buffer, 1, linearized)
             array2 == get_array(temp_buffer, 2, linearized)
             in1 == Content(temp_buffer, SpanSlots(array1))
             in2 == Content(temp_buffer, SpanSlots(array2))
             y1 == [uninitialized_copy(y0, in1, 0) EXCEPT
                       !.bad = @ \cup {<<"read_old", ev[2], ev[3]>> :
                                         ev \in BadAt(temp_buffer, "read",
                                                      {array1[1] + i - 1 : i \in DOMAIN in1}
                                                      \cup {array2[1] + i - 1 : i \in DOMAIN in2})}]
             b1 == Len(in1)
             y2 == uninitialized_copy(y1, in2, b1)
             b2 == b1 + Len(in2)
             y3 == uninitialized_copy(y2, [i \in 1..(new_size - b2) |-> value], b2)
         IN  [y3 EXCEPT !.back_ptr = 0, !.count = new_size,
                        !.bad = @ \cup Released(temp_buffer)]
    ELSE IF new_size < current_cap
    THEN IF size(x) > new_size
         THEN pop_back_until(x, new_size)
         ELSE emplace_back_until(x, new_size, value)
    ELSE emplace_back_until(x, capacity(x), DefaultVal)

\* ---- the caller's bookkeeping -------------------------------------------
NoOp == [name |-> "ctor", in |-> <<>>, n |-> 0, ret |-> 0, out |-> <<>>]

Call(name, in, n, ret, out) ==
    [name |-> name, in |-> in, n |-> n, ret |-> ret, out |-> out]

Commit(x) ==
    /\ cap' = x.cap
    /\ mem' = x.mem
    /\ front_ptr' = x.front_ptr
    /\ back_ptr' = x.back_ptr
    /\ count' = x.count
    /\ eff' = Eff(x)

\* an access outside the storage has happened: the run is not continued
Corrupt == \E ev \in eff.bad : ~ev[3]

Idle == [phase |-> "idle", pushed |-> <<>>, popped |-> <<>>]

\* ---- construction --------------------------------------------------------
\* ring_buffer(size_type capacity_size)
Constructed(maxcap) ==
    /\ cap \in 1..maxcap
    /\ mem = [p \in 0..(cap - 1) |-> Uninit]
    /\ front_ptr = 0
    /\ back_ptr = 0
    /\ count = 0
    /\ eff = [des |-> <<>>, con |-> <<>>, bad |-> {}]
    /\ op = NoOp
    /\ model = <<>>
    /\ single = TRUE
    /\ trip = Idle

Init == Constructed(MaxCap)

\* ---- single-element calls ------------------------------------------------
\* the reference sequence replays the single-element calls made since
\* construction; it is dropped at the first call of another kind
ModelPush(v) == IF single THEN LastN(Append(model, v), cap) ELSE <<>>

ModelTryPush(v) ==
    IF single THEN (IF Len(model) >= cap THEN model ELSE Append(model, v)) ELSE <<>>

ModelPopFront == IF model = <<>> THEN model ELSE Tail(model)

ModelPopBack == IF model = <<>> THEN model ELSE SubSeq(model, 1, Len(model) - 1)

\* the round trip of C6 is followed while only single-element calls were made
Track(t) == IF single THEN t ELSE Idle

PushBack ==
    /\ ~Corrupt
    /\ UNCHANGED single
    /\ \E v \in Values :
        /\ Commit(emplace_back(Cur, v))
        /\ op' = Call("push_back", <<v>>, 1, TRUE, <<>>)
        /\ model' = ModelPush(v)
        /\ trip' = Track(IF full(Cur) /\ ~empty(Cur) THEN Idle
                         ELSE IF empty(Cur)
                         THEN [phase |-> "push", pushed |-> <<v>>, popped |-> <<>>]
                         ELSE IF trip.phase = "push"
                         THEN [trip EXCEPT !.pushed = Append(@, v)]
                         ELSE Idle)

TryPushBack ==
    /\ ~Corrupt
    /\ UNCHANGED single
    /\ \E v \in Values :
        /\ Commit(try_emplace_back(Cur, v).x)
        /\ op' = Call("try_push_back", <<v>>, 1, try_emplace_back(Cur, v).ret, <<>>)
        /\ model' = ModelTryPush(v)
        /\ trip' = Idle

PopFront ==
    /\ ~Corrupt
    /\ UNCHANGED single
    /\ ~empty(Cur)
    /\ Commit(pop_front(Cur))
    /\ op' = Call("pop_front", <<>>, 1, TRUE, <<>>)
    /\ model' = ModelPopFront
    /\ trip' = Idle

PopFrontValue ==
    /\ ~Corrupt
    /\ UNCHANGED single
    /\ ~empty(Cur)
    /\ \E value \in Observed(Peek(Cur, front_ptr)) :
        /\ Commit(pop_front_value(Cur))
        /\ op' = Call("pop_front_value", <<>>, 1, TRUE, <<value>>)
        /\ model' = ModelPopFront
        /\ trip' = Track(IF trip.phase \in {"push", "pop"}
                            /\ Len(trip.popped) < Len(trip.pushed)
                         THEN [trip EXCEPT !.phase = "pop", !.popped = Append(@, value)]
                         ELSE Idle)

TryPopFront ==
    /\ ~Corrupt
    /\ UNCHANGED single
    /\ Commit(IF empty(Cur) THEN Cur ELSE pop_front(Cur))
    /\ op' = Call("try_pop_front", <<>>, 1, ~empty(Cur), <<>>)
    /\ model' = ModelPopFront
    /\ trip' = Idle

TryPopFrontValue ==
    /\ ~Corrupt
    /\ UNCHANGED single
    /\ \E value \in (IF empty(Cur) THEN {Uninit} ELSE Observed(Peek(Cur, front_ptr))) :
        /\ Commit(IF empty(Cur) THEN Cur ELSE pop_front_value(Cur))
        /\ op' = Call("try_pop_front_value", <<>>, 1, ~empty(Cur),
                      IF empty(Cur) THEN <<>> ELSE <<value>>)
        /\ model' = ModelPopFront
        /\ trip' = Idle

PopBack ==
    /\ ~Corrupt
    /\ UNCHANGED single
    /\ ~empty(Cur)
    /\ Commit(pop_back(Cur))
    /\ op' = Call("pop_back", <<>>, 1, TRUE, <<>>)
    /\ model' = ModelPopBack
    /\ trip' = Idle

PopBackValue ==
    /\ ~Corrupt
    /\ UNCHANGED single
    /\ ~empty(Cur)
    /\ \E value \in Observed(Peek(Cur, decrement_back(Cur).back_ptr)) :
        /\ Commit(pop_back_value(Cur))
        /\ op' = Call("pop_back_value", <<>>, 1, TRUE, <<value>>)
        /\ model' = ModelPopBack
        /\ trip' = Idle

TryPopBack ==
    /\ ~Corrupt
    /\ UNCHANGED single
    /\ Commit(IF empty(Cur) THEN Cur ELSE pop_back(Cur))
    /\ op' = Call("try_pop_back", <<>>, 1, ~empty(Cur), <<>>)
    /\ model' = ModelPopBack
    /\ trip' = Idle

TryPopBackValue ==
    /\ ~Corrupt
    /\ UNCHANGED single
    /\ \E value \in (IF empty(Cur) THEN {Uninit}
                     ELSE Observed(Peek(Cur, decrement_back(Cur).back_ptr))) :
        /\ Commit(IF empty(Cur) THEN Cur ELSE pop_back_value(Cur))
        /\ op' = Call("try_pop_back_value", <<>>, 1, ~empty(Cur),
                      IF empty(Cur) THEN <<>> ELSE <<value>>)
        /\ model' = ModelPopBack
        /\ trip' = Idle

Next ==
    \/ PushBack
    \/ TryPushBack
    \/ PopFront
    \/ PopFrontValue
    \/ TryPopFront
    \/ TryPopFrontValue
    \/ PopBack
    \/ PopBackValue
    \/ TryPopBack
    \/ TryPopBackValue

Spec == Init /\ [][Next]_vars

\* ---- bulk calls ------------------------------------------------------------
InsertBack ==
    /\ ~Corrupt
    /\ single' = FALSE
    /\ \E n \in 0..(cap + 1) : \E in \in BulkInputs(n) :
        /\ Commit(insert_back(Cur, in))
        /\ op' = Call("insert_back", in, Len(in), TRUE, <<>>)
        /\ model' = <<>>
        /\ trip' = Idle

NextInsert ==
    \/ Next
    \/ InsertBack

SpecInsert == Init /\ [][NextInsert]_vars

\* the outcomes of moving a run of slots to the caller's destination
RECURSIVE ObservedSeq(_)
ObservedSeq(raw) ==
    IF raw = <<>> THEN {<<>>}
    ELSE {<<v>> \o t : v \in Observed(Head(raw)), t \in ObservedSeq(Tail(raw))}

PopFrontBulk ==
    /\ ~Corrupt
    /\ single' = FALSE
    /\ \E n \in 0..(count + 1) :
        LET r == pop_front_n(Cur, n) IN
        \E out \in ObservedSeq(Content(Cur, r.from)) :
            /\ Commit(r.x)
            /\ op' = Call("pop_front_n", <<>>, n, TRUE, out)
            /\ model' = <<>>
            /\ trip' = Idle

PopBackBulk ==
    /\ ~Corrupt
    /\ single' = FALSE
    /\ \E n \in 0..(count + 1) :
        LET r == pop_back_n(Cur, n) IN
        \E out \in ObservedSeq(Content(Cur, r.from)) :
            /\ Commit(r.x)
            /\ op' = Call("pop_back_n", <<>>, n, TRUE, out)
            /\ model' = <<>>
            /\ trip' = Idle

Linearize ==
    /\ ~Corrupt
    /\ single' = FALSE
    /\ Commit(linearize(Cur).x)
    /\ op' = Call("linearize", <<>>, 0, linearize(Cur).ret, <<>>)
    /\ model' = <<>>
    /\ trip' = Idle

Clear ==
    /\ ~Corrupt
    /\ single' = FALSE
    /\ Commit(clear(Cur))
    /\ op' = Call("clear", <<>>, 0, TRUE, <<>>)
    /\ model' = <<>>
    /\ trip' = Idle

SetCapacity(maxcap) ==
    /\ ~Corrupt
    /\ single' = FALSE
    /\ \E n \in 1..maxcap :
        /\ Commit(set_capacity(Cur, n))
        /\ op' = Call("set_capacity", <<>>, n, TRUE, <<>>)
        /\ model' = <<>>
        /\ trip' = Idle

Resize(maxcap) ==
    /\ ~Corrupt
    /\ single' = FALSE
    /\ \E n \in 0..maxcap : \E v \in Values :
        /\ Commit(resize(Cur, n, v))
        /\ op' = Call("resize", <<v>>, n, TRUE, <<>>)
        /\ model' = <<>>
        /\ trip' = Idle

NextAll ==
    \/ NextInsert
    \/ PopFrontBulk
    \/ PopBackBulk
    \/ Linearize
    \/ Clear
    \/ SetCapacity(MaxCapAll)
    \/ Resize(MaxCapAll)

InitAll == Constructed(MaxCapAll)

SpecAll == InitAll /\ [][NextAll]_vars

\* ---- claims -------------------------------------------------------------
\* the buffer before and after a step
Now == Buf(Cur)

After ==
    [cap |-> cap', mem |-> mem', front_ptr |-> front_ptr', back_ptr |-> back_ptr',
     count |-> count']

NoUB == eff.bad = {}

\* the sequence s lists exactly the members of S, each once
ExactlyOnce(s, S) ==
    /\ {s[i] : i \in DOMAIN s} = S
    /\ Len(s) = Cardinality(S)

\* C1: push_back on a full buffer destroys exactly the oldest element, keeps
\* the other capacity-1 elements in order, appends the new element as the
\* newest and leaves size() == capacity().
C1_PushBackFullEvictsOldest ==
    [][(op'.name = "push_back" /\ full(Now)) =>
        /\ Logical(After) = Append(Tail(Logical(Now)), op'.in[1])
        /\ eff'.des = <<front_ptr>>
        /\ eff'.con = <<back_ptr>>
        /\ eff'.bad = {}
        /\ size(After) = capacity(After)]_vars

\* a push_back that evicted the element in the last slot of the storage
C1_Witness ==
    /\ op.name = "push_back"
    /\ cap >= 2
    /\ eff.des = <<cap - 1>>
    /\ full(Now)
    /\ Logical(Now)[cap] = op.in[1]

\* C2: try_push_back on a full buffer returns false and changes nothing; on
\* a non-full buffer it returns true, appends the element as the newest and
\* grows size() by one without destroying anything.
C2_TryPushBack ==
    [][(op'.name = "try_push_back") =>
        IF full(Now)
        THEN op'.ret = FALSE /\ After = Now /\ eff'.des = <<>> /\ eff'.con = <<>>
        ELSE /\ op'.ret = TRUE
             /\ Logical(After) = Append(Logical(Now), op'.in[1])
             /\ size(After) = size(Now) + 1
             /\ eff'.des = <<>>
             /\ eff'.bad = {}]_vars

\* a refused try_push_back on a full buffer whose front is off slot 0
C2_Witness ==
    /\ op.name = "try_push_back"
    /\ op.ret = FALSE
    /\ full(Now)
    /\ front_ptr # 0
    /\ eff.con = <<>>

\* C3: after any sequence of inserts and removals, resize, clear and
\* linearize, 0 <= size() <= capacity(), empty() is size() == 0 and full()
\* is size() == capacity().
C3_SizeWithinCapacity ==
    /\ 0 <= size(Now)
    /\ size(Now) <= capacity(Now)
    /\ empty(Now) <=> (count = 0)
    /\ full(Now) <=> (count = cap)

\* after bulk, resize, clear or linearize calls were made, a push_back on a
\* full buffer evicted the oldest element and size() stays at capacity()
C3_Witness ==
    /\ op.name = "push_back"
    /\ ~single
    /\ eff.des # <<>>
    /\ size(Now) = capacity(Now)
    /\ full(Now)
    /\ cap >= 2

C5_IndexIsLogicalPosition ==
    \A i \in 0..(count - 1) :
        /\ IndexSlot(Now, i) = (front_ptr + i) % cap
        /\ Peek(Now, IndexSlot(Now, i)) = model[i + 1]

\* C6: from an empty buffer, n <= capacity push_back calls followed by n
\* pop_front(value) calls return the pushed elements in push order and leave
\* the buffer empty.
C6_RoundTrip ==
    (trip.phase = "pop") =>
        /\ trip.popped = FirstN(trip.pushed, Len(trip.popped))
        /\ (Len(trip.popped) = Len(trip.pushed) => empty(Now))

C6_Witness ==
    /\ trip.phase = "pop"
    /\ cap >= 2
    /\ Len(trip.pushed) = cap
    /\ trip.popped = trip.pushed
    /\ front_ptr # 0
    /\ empty(Now)

\* C7: array_one() ++ array_two() has exactly size() elements and is the
\* logical content in order, also when the buffer is empty.
C7_ArraysAreLogicalContent ==
    LET s == SpanSlots(array_one(Now)) \o SpanSlots(array_two(Now)) IN
    /\ Len(s) = size(Now)
    /\ s = LogicalSlots(Now)
    /\ Content(Now, s) = model

\* an insert_back step taken from a state reached by single-element calls
IsInsertBack == op'.name = "insert_back" /\ single

\* C8: insert_back of m elements with available < m < capacity ends full,
\* with the last C-m old elements followed by the m new ones, and destroys
\* exactly the m - available oldest elements and no other slot.
C8_InsertBackOverflow ==
    [][(IsInsertBack /\ reserve(Now) < op'.n /\ op'.n < capacity(Now)) =>
        /\ size(After) = capacity(After)
        /\ capacity(After) = capacity(Now)
        /\ Logical(After) = LastN(Logical(Now), capacity(Now) - op'.n) \o op'.in
        /\ ExactlyOnce(eff'.des,
                       {LogicalSlots(Now)[i] : i \in 1..(op'.n - reserve(Now))})
        /\ eff'.bad = {}]_vars

\* an overflowing insert_back that evicted across the storage end: all of
\* the tail run and part of the head run of a wrapped buffer
C8_Witness ==
    /\ op.name = "insert_back"
    /\ op.n < cap
    /\ full(Now)
    /\ Len(eff.des) >= 2
    /\ eff.des[Len(eff.des)] = 0
    /\ eff.des[1] > 0
    /\ Len(eff.con) = op.n
    /\ LastN(Logical(Now), op.n) = op.in

\* C9: insert_back of n <= available elements is a pure append: size grows
\* by n, the content is the old content followed by the input, nothing is
\* destroyed and every element is constructed in a free slot inside storage,
\* at (back + i) mod capacity.
C9_InsertBackAppend ==
    [][(IsInsertBack /\ op'.n <= reserve(Now)) =>
        /\ size(After) = size(Now) + op'.n
        /\ Logical(After) = Logical(Now) \o op'.in
        /\ eff'.des = <<>>
        /\ eff'.con = [i \in 1..op'.n |-> (back_ptr + i - 1) % cap]
        /\ eff'.bad = {}]_vars

\* C10: insert_back of n >= capacity elements destroys exactly the elements
\* live before the call, each once, constructs the last capacity input
\* elements in slots 0..capacity-1 and leaves the buffer full from slot 0.
C10_InsertBackReplace ==
    [][(IsInsertBack /\ op'.n >= capacity(Now)) =>
        /\ ExactlyOnce(eff'.des, {LogicalSlots(Now)[i] : i \in 1..size(Now)})
        /\ eff'.bad = {}
        /\ eff'.con = Range(0, cap)
        /\ front_ptr' = 0
        /\ full(After)
        /\ Logical(After) = LastN(op'.in, cap)]_vars

\* ---- bulk pops after single-element calls ----------------------------------
NextPopFront ==
    \/ Next
    \/ PopFrontBulk

SpecPopFront == Init /\ [][NextPopFront]_vars

NextPopBack ==
    \/ Next
    \/ PopBackBulk

SpecPopBack == Init /\ [][NextPopBack]_vars

\* C11: pop_front(dest, n) after single-element calls moves the k = min(n,
\* size()) oldest elements to dest, oldest first, also across the storage end,
\* keeps the other elements in order, lowers size() by k and does nothing
\* when k is 0.
C11_PopFrontBulk ==
    [][(op'.name = "pop_front_n" /\ single) =>
        LET k == Min(op'.n, size(Now)) IN
        /\ op'.out = FirstN(Logical(Now), k)
        /\ Logical(After) = SubSeq(Logical(Now), k + 1, size(Now))
        /\ size(After) = size(Now) - k
        /\ k = 0 => (After = Now /\ eff'.des = <<>> /\ eff'.con = <<>>)]_vars

\* a bulk pop_front that took elements from both sides of the storage end
\* and left some in the buffer
C11_Witness ==
    /\ op.name = "pop_front_n"
    /\ Len(op.out) >= 3
    /\ \E i \in 1..(Len(eff.des) - 1) : eff.des[i] = cap - 1 /\ eff.des[i + 1] = 0
    /\ eff.des[1] < cap - 1
    /\ eff.bad = {}
    /\ size(Now) >= 1
    /\ front_ptr = 1

\* C12: pop_back(dest, n) after single-element calls moves exactly the k =
\* min(n, size()) newest elements to dest in logical order, destroys exactly
\* their slots, keeps the size()-k oldest elements in order with back one
\* past the new newest element, and lowers size() by k.
C12_PopBackBulk ==
    [][(op'.name = "pop_back_n" /\ single) =>
        LET k == Min(op'.n, size(Now)) IN
        /\ op'.out = LastN(Logical(Now), k)
        /\ ExactlyOnce(eff'.des, {LogicalSlots(Now)[i] : i \in (size(Now) - k + 1)..size(Now)})
        /\ eff'.bad = {}
        /\ Logical(After) = FirstN(Logical(Now), size(Now) - k)
        /\ back_ptr' = (front_ptr + size(Now) - k) % cap
        /\ size(After) = size(Now) - k]_vars

\* ---- linearize after single-element calls -----------------------------------
NextLin ==
    \/ Next
    \/ Linearize

SpecLin == Init /\ [][NextLin]_vars

\* the occupied range runs to the storage end and continues at slot 0
Wrapped(x) == x.count > 0 /\ x.front_ptr + x.count > x.cap

\* C13: linearize() on a wrapped buffer keeps the logical sequence, stores it
\* in slots 0 .. size()-1, keeps size(), and leaves is_linearized() true and
\* array_two() empty.
C13_LinearizeWrapped ==
    [][(op'.name = "linearize" /\ single /\ Wrapped(Now)) =>
        /\ Logical(After) = Logical(Now)
        /\ front_ptr' = 0
        /\ Content(After, Range(0, size(Now))) = Logical(Now)
        /\ size(After) = size(Now)
        /\ is_linearized(After)
        /\ array_two(After)[1] = array_two(After)[2]]_vars

\* C14: linearize() on an empty or contiguous buffer changes no slot, no
\* boundary and not size(); so does a second linearize() right after one.
C14_LinearizeNoOp ==
    [][(/\ op'.name = "linearize"
        /\ \/ single /\ (empty(Now) \/ ~Wrapped(Now))
           \/ op.name = "linearize") =>
        /\ After = Now
        /\ eff'.des = <<>>
        /\ eff'.con = <<>>
        /\ eff'.bad = {}]_vars

\* linearize() returned the front of a contiguous run that ends at the
\* storage end and does not start at slot 0
C14_Witness ==
    /\ op.name = "linearize"
    /\ op.ret = front_ptr
    /\ front_ptr > 0
    /\ back_ptr = 0
    /\ count = cap - front_ptr
    /\ count >= 2
    /\ eff = [des |-> <<>>, con |-> <<>>, bad |-> {}]

\* ---- comparison --------------------------------------------------------------
\* while (first1 != last1) if (*first1++ != *first2++) return false;
\* first1 walks rhs and first2 walks lhs.  The outcomes of the call: the
\* returned value and whether an end (null) iterator of lhs was dereferenced
\* or an unconstructed slot was read, after which any value may come back.
RECURSIVE EqualWalk(_, _, _, _, _)
EqualWalk(lhs, rhs, first1, first2, k) ==
    IF first1 = end(rhs) \/ k = 0 THEN {[ret |-> TRUE, ub |-> FALSE]}
    ELSE IF first2 = Null \/ ~Live(lhs, first2) \/ ~Live(rhs, first1)
    THEN {[ret |-> r, ub |-> TRUE] : r \in BOOLEAN}
    ELSE IF Peek(rhs, first1) # Peek(lhs, first2)
    THEN {[ret |-> FALSE, ub |-> FALSE]}
    ELSE EqualWalk(lhs, rhs, IterInc(rhs, first1), IterInc(lhs, first2), k - 1)

\* operator==(lhs, rhs)
operator_eq(lhs, rhs) == EqualWalk(lhs, rhs, begin(rhs), begin(lhs), rhs.cap + 1)

\* operator!=(lhs, rhs)
operator_ne(lhs, rhs) == {[o EXCEPT !.ret = ~@] : o \in operator_eq(lhs, rhs)}

\* the other operand: a buffer of capacity c built by ring_buffer(c), k
\* push_back/pop_front pairs (front moves to slot k mod c) and a push_back
\* of each element of s
RECURSIVE Spin(_, _)
Spin(x, k) == IF k = 0 THEN x ELSE Spin(pop_front(emplace_back(x, 1)), k - 1)

RECURSIVE PushAll(_, _)
PushAll(x, s) == IF s = <<>> THEN x ELSE PushAll(emplace_back(x, Head(s)), Tail(s))

Operand(c, k, s) == PushAll(Spin(Fresh(Cur, c), k), s)

\* contents for the other operand, chosen around the content s of this one:
\* s itself, its proper prefixes, s with its last element changed and s
\* extended by one element
Nearby(s) ==
    {SubSeq(s, 1, n) : n \in 0..Len(s)}
    \cup {Append(s, v) : v \in Values}
    \cup {Append(SubSeq(s, 1, Len(s) - 1), v) : v \in IF s = <<>> THEN {} ELSE Values}

\* b == c or b != c, with this buffer as lhs (n = 0) or as rhs (n = 1)
Compare ==
    /\ ~Corrupt
    /\ \E c \in {cap, MaxCap} : \E k \in 0..(c - 1) :
       \E s \in {t \in Nearby(Logical(Cur)) : Len(t) <= c} :
       \E side \in 0..1 : \E neg \in BOOLEAN :
        LET other == Operand(c, k, s)
            lhs == IF side = 0 THEN Cur ELSE other
            rhs == IF side = 0 THEN other ELSE Cur
        IN  \E o \in IF neg THEN operator_ne(lhs, rhs) ELSE operator_eq(lhs, rhs) :
            /\ op' = Call(IF neg THEN "operator!=" ELSE "operator==", s, side, o.ret, <<>>)
            /\ eff' = [des |-> <<>>, con |-> <<>>,
                       bad |-> IF o.ub THEN {<<"read", Null, FALSE>>} ELSE {}]
    /\ UNCHANGED <<cap, mem, front_ptr, back_ptr, count, model, single, trip>>

NextCompare ==
    \/ Next
    \/ Compare

SpecCompare == Init /\ [][NextCompare]_vars

\* C15: operator== returns true exactly when both buffers have the same
\* size() and pairwise equal elements in logical order, wherever each front
\* is and whichever operand is shorter or empty; operator!= is its negation.
C15_EqualityIsLogical ==
    [][(op'.name \in {"operator==", "operator!="}) =>
        /\ eff'.bad = {}
        /\ op'.ret = ((Logical(Now) = op'.in) <=> (op'.name = "operator=="))]_vars

\* ---- copy construction ---------------------------------------------------------
\* ring_buffer(const ring_buffer& other): the new object.  Its storage is
\* fresh; get_array is called on the new object, so the second branch copies
\* from the new object's own slots.
copy_construct(other) ==
    LET y0 == [other EXCEPT !.mem = [p \in DOMAIN @ |-> Uninit]]
        f == y0.front_ptr
    IN  IF is_linearized(y0)
        THEN LET from == Range(f, f + size(y0)) IN
             [uninitialized_copy(y0, Content(other, from), f) EXCEPT
                 !.bad = @ \cup BadAt(other, "read_other", {from[i] : i \in DOMAIN from})]
        ELSE LET array1 == get_array(y0, 1, FALSE)
                 array2 == get_array(y0, 2, FALSE)
                 s1 == SpanSlots(array1)
                 s2 == SpanSlots(array2)
                 y1 == [uninitialized_copy(y0, Content(y0, s1), f) EXCEPT
                           !.bad = @ \cup BadAt(y0, "read", {s1[i] : i \in DOMAIN s1})]
             IN  [uninitialized_copy(y1, Content(y1, s2), 0) EXCEPT
                     !.bad = @ \cup BadAt(y1, "read", {s2[i] : i \in DOMAIN s2})]

\* ring_buffer c(b); the run goes on with the copy
CopyConstruct ==
    /\ ~Corrupt
    /\ single' = FALSE
    /\ Commit(copy_construct(Cur))
    /\ op' = Call("copy", <<>>, 0, TRUE, <<>>)
    /\ model' = <<>>
    /\ trip' = Idle

NextCopy ==
    \/ Next
    \/ CopyConstruct

SpecCopy == Init /\ [][NextCopy]_vars

\* C16: the copy of a buffer reached by single-element calls has the
\* capacity, size, front and back offsets and logical content of the source,
\* and exactly size() elements are constructed, each copied from the source
\* element at the same slot.
C16_CopyConstruct ==
    [][(op'.name = "copy" /\ single) =>
        /\ capacity(After) = capacity(Now)
        /\ size(After) = size(Now)
        /\ front_ptr' = front_ptr
        /\ back_ptr' = back_ptr
        /\ Logical(After) = Logical(Now)
        /\ ExactlyOnce(eff'.con, {LogicalSlots(Now)[i] : i \in 1..size(Now)})
        /\ eff'.des = <<>>
        /\ eff'.bad = {}]_vars

\* ---- failing element operations (build with exceptions) -----------------------
\* emplace_back_without_checks when Construct throws: increment_back() has
\* run, the handler runs decrement_back() and rethrows
emplace_back_without_checks_throw(x) == decrement_back(increment_back(x))

\* emplace_back when Construct throws
emplace_back_throw(x) ==
    emplace_back_without_checks_throw(IF full(x) THEN pop_front(x) ELSE x)

\* a pop_front(value_type&) whose handler does not run decrement_front()
pop_front_value_throw_no_rollback(x) ==
    [increment_front(x) EXCEPT !.bad = @ \cup BadAt(x, "read", {x.front_ptr})]

\* pop_front(value_type&) when the assignment to value throws: increment_front()
\* has run, the element was read and not destroyed, the handler runs
\* decrement_front()
pop_front_value_throw(x) ==
    LET current_front == x.front_ptr IN
    decrement_front([increment_front(x) EXCEPT
                        !.bad = @ \cup BadAt(x, "read", {current_front})])

\* pop_back(value_type&) when the assignment to value throws
pop_back_value_throw(x) ==
    LET y == decrement_back(x) IN
    increment_back([y EXCEPT !.bad = @ \cup BadAt(x, "read", {y.back_ptr})])

PushBackThrows ==
    /\ ~Corrupt
    /\ Commit(emplace_back_throw(Cur))
    /\ op' = Call("push_back_throw", <<>>, 1, FALSE, <<>>)
    /\ trip' = Idle
    /\ UNCHANGED <<single, model>>

PopFrontValueThrows ==
    /\ ~Corrupt
    /\ ~empty(Cur)
    /\ Commit(pop_front_value_throw(Cur))
    /\ op' = Call("pop_front_value_throw", <<>>, 1, FALSE, <<>>)
    /\ trip' = Idle
    /\ UNCHANGED <<single, model>>

PopBackValueThrows ==
    /\ ~Corrupt
    /\ ~empty(Cur)
    /\ Commit(pop_back_value_throw(Cur))
    /\ op' = Call("pop_back_value_throw", <<>>, 1, FALSE, <<>>)
    /\ trip' = Idle
    /\ UNCHANGED <<single, model>>

NextThrow ==
    \/ Next
    \/ PushBackThrows
    \/ PopFrontValueThrows
    \/ PopBackValueThrows

SpecThrow == Init /\ [][NextThrow]_vars

\* C17: when the element's constructor throws inside push_back /
\* emplace_back, size, the boundaries and the content are as before the
\* call, whether the buffer was full or not.
C17_PushBackThrowKeepsState ==
    [][(op'.name = "push_back_throw") =>
        /\ After = Now
        /\ Logical(After) = Logical(Now)
        /\ eff'.des = <<>>]_vars

\* C18: when the assignment to the caller's destination throws inside
\* pop_front(value) or pop_back(value), size(), the boundaries and the
\* occupied slots are as before the call.
C18_PopValueThrowKeepsState ==
    [][(op'.name \in {"pop_front_value_throw", "pop_back_value_throw"}) =>
        /\ size(After) = size(Now)
        /\ front_ptr' = front_ptr
        /\ back_ptr' = back_ptr
        /\ {p \in DOMAIN mem' : Live(After, p)} = {p \in DOMAIN mem : Live(Now, p)}
        /\ eff'.des = <<>>
        /\ eff'.con = <<>>
        /\ eff'.bad = {}]_vars

\* a failed pop_front(value) at the last slot of the storage: the front
\* boundary was wrapped to slot 0 and put back
C18_Witness ==
    /\ op.name = "pop_front_value_throw"
    /\ front_ptr = cap - 1
    /\ cap >= 3
    /\ size(Now) >= 2
    /\ Live(Now, front_ptr)
    /\ eff = [des |-> <<>>, con |-> <<>>, bad |-> {}]

\* ---- resize after single-element calls ----------------------------------------
NextResize ==
    \/ Next
    \/ Resize(MaxCap)

SpecResize == Init /\ [][NextResize]_vars

IsResize == op'.name = "resize" /\ single

\* n copies of v
Fill(n, v) == [i \in 1..n |-> v]

\* C19: resize(n, v) with n > capacity() ends with capacity() == size() ==
\* n, the old content first, in order, then n - old_size elements equal to
\* v, and reads no slot outside the old storage.
C19_ResizeGrow ==
    [][(IsResize /\ op'.n > capacity(Now)) =>
        /\ capacity(After) = op'.n
        /\ size(After) = op'.n
        /\ Logical(After) = Logical(Now) \o Fill(op'.n - size(Now), op'.in[1])
        /\ \A ev \in eff'.bad : ev[1] # "read_old"]_vars

\* C20: resize(n, v) with n <= capacity() keeps the capacity and ends with
\* size() == n: it removes the size()-n newest elements when size() > n, and
\* otherwise (also for n == capacity()) appends n - size() elements equal
\* to v after the existing ones.
C20_ResizeWithinCapacity ==
    [][(IsResize /\ op'.n <= capacity(Now)) =>
        /\ capacity(After) = capacity(Now)
        /\ size(After) = op'.n
        /\ Logical(After) =
              IF size(Now) > op'.n
              THEN FirstN(Logical(Now), op'.n)
              ELSE Logical(Now) \o Fill(op'.n - size(Now), op'.in[1])
        /\ size(Now) > op'.n =>
              ExactlyOnce(eff'.des, {LogicalSlots(Now)[i] : i \in (op'.n + 1)..size(Now)})]_vars

\* ---- iterator arithmetic -----------------------------------------------------
\* the iterator reached from begin() by i operator++ steps
RECURSIVE IterAt(_, _)
IterAt(x, i) == IF i = 0 THEN begin(x) ELSE IterInc(x, IterAt(x, i - 1))

\* make_linear_pointer of operator-(const ring_buffer_iterator&)
make_linear_pointer(x, ptr) ==
    IF is_linearized(x) THEN ptr
    ELSE IF ptr >= x.front_ptr /\ ptr < x.cap THEN ptr
    ELSE ptr + (x.cap - x.front_ptr)

\* it - other: the outcomes of the call.  Arithmetic on the null pointer of
\* an end iterator is undefined and may yield any difference; only
\* nullptr - nullptr, taken when is_linearized(), is 0.
iterator_minus(x, ptr, other) ==
    IF ptr = Null /\ other = Null /\ is_linearized(x)
    THEN {[ret |-> 0, ub |-> FALSE]}
    ELSE IF ptr = Null \/ other = Null
    THEN {[ret |-> d, ub |-> TRUE] : d \in (0 - x.cap - 1)..(x.cap + 1)}
    ELSE {[ret |-> make_linear_pointer(x, ptr) - make_linear_pointer(x, other),
           ub |-> FALSE]}

\* it += n (also it + n, it - (-n) and the iterator of it[n]): the outcomes
iterator_plus(x, ptr, n) ==
    IF ptr = Null
    THEN {[ret |-> q, ub |-> TRUE] : q \in {Null} \cup 0..(x.cap - 1)}
    ELSE LET q == increment_by(x, ptr, n) IN
         {[ret |-> IF q = x.back_ptr THEN Null ELSE q, ub |-> FALSE]}

\* d = IterAt(i) - IterAt(j)
IterDiff ==
    /\ ~Corrupt
    /\ \E i \in 0..count : \E j \in 0..count :
       \E o \in iterator_minus(Cur, IterAt(Cur, i), IterAt(Cur, j)) :
        /\ op' = Call("iterator_minus", <<i, j>>, 0, o.ret, <<>>)
        /\ eff' = [des |-> <<>>, con |-> <<>>,
                   bad |-> IF o.ub THEN {<<"read", Null, FALSE>>} ELSE {}]
    /\ UNCHANGED <<cap, mem, front_ptr, back_ptr, count, model, single, trip>>

\* it = IterAt(i); it += n
IterPlus ==
    /\ ~Corrupt
    /\ \E i \in 0..count : \E n \in (0 - i)..(count - i) :
       \E o \in iterator_plus(Cur, IterAt(Cur, i), n) :
        /\ op' = Call("iterator_plus", <<i>>, n, o.ret, <<>>)
        /\ eff' = [des |-> <<>>, con |-> <<>>,
                   bad |-> IF o.ub THEN {<<"read", Null, FALSE>>} ELSE {}]
    /\ UNCHANGED <<cap, mem, front_ptr, back_ptr, count, model, single, trip>>

NextIter ==
    \/ Next
    \/ IterDiff
    \/ IterPlus

SpecIter == Init /\ [][NextIter]_vars

\* C21: for iterators at logical positions i and j of a buffer reached by
\* single-element calls (position size() is end()), it_i - it_j is i - j; in
\* particular end() - begin() is size().
C21_IteratorDifference ==
    [][(op'.name = "iterator_minus") =>
        /\ eff'.bad = {}
        /\ op'.ret = op'.in[1] - op'.in[2]]_vars

\* C22: for an iterator at logical position i and n with 0 <= i + n <
\* size(), it + n (it - (-n), it += n, it[n]) is at the slot of logical
\* position i + n, and it + (size() - i) is end().
C22_IteratorAdvance ==
    [][(op'.name = "iterator_plus") =>
        LET i == op'.in[1]
            n == op'.n
        IN  i < size(Now) =>
              /\ eff'.bad = {}
              /\ (0 <= i + n /\ i + n < size(Now)) => op'.ret = LogicalSlots(Now)[i + n + 1]
              /\ (i + n = size(Now)) => op'.ret = end(Now)]_vars

\* ---- scripted calls ---------------------------------------------------------------
\* one call of a script: <<"push_back", v>>, <<"pop_front">> or <<"linearize">>
ScriptCall(x, call) ==
    IF call[1] = "push_back" THEN [x |-> emplace_back(x, call[2]), ret |-> TRUE]
    ELSE IF call[1] = "pop_front" THEN [x |-> pop_front(x), ret |-> TRUE]
    ELSE linearize(x)

\* the calls of a script made one after the other on a new ring_buffer(c);
\* op.n counts the calls made so far
Script(name, c, calls) ==
    /\ ~Corrupt
    /\ \/ op.name = "ctor" /\ cap = c
       \/ op.name = name
    /\ LET k == IF op.name = name THEN op.n ELSE 0 IN
        /\ k < Len(calls)
        /\ Commit(ScriptCall(Cur, calls[k + 1]).x)
        /\ op' = Call(name, <<>>, k + 1, ScriptCall(Cur, calls[k + 1]).ret, <<>>)
    /\ single' = FALSE
    /\ model' = <<>>
    /\ trip' = Idle

\* capacity 4: push_back 1,2,3,4,5, then pop_front twice
PushFiveIntoFour ==
    Script("push_five_into_four", 4,
           <<<<"push_back", 1>>, <<"push_back", 2>>, <<"push_back", 3>>,
             <<"push_back", 4>>, <<"push_back", 5>>, <<"pop_front">>, <<"pop_front">>>>)

\* capacity 5: three elements, then 4,5 into slots 3-4, then 1,2,3 into slots
\* 0-2 (evicting the first three), then linearize()
LinearizeFive ==
    Script("linearize_five", 5,
           <<<<"push_back", 1>>, <<"push_back", 1>>, <<"push_back", 1>>,
             <<"push_back", 4>>, <<"push_back", 5>>, <<"push_back", 1>>,
             <<"push_back", 2>>, <<"push_back", 3>>, <<"linearize">>>>)

NextScript ==
    \/ Next
    \/ PushFiveIntoFour
    \/ LinearizeFive

SpecScript == Constructed(MaxCapScript) /\ [][NextScript]_vars

\* C23: capacity 4; after push_back of 1,2,3,4 the buffer is full with front
\* and back at slot 0; push_back(5) evicts 1 and the sequence is 2,3,4,5; two
\* pop_front calls leave 4,5 with size() == 2, front() == 4 and back() == 5.
C23_PushFiveIntoFour ==
    (op.name = "push_five_into_four") =>
        /\ op.n = 4 => (full(Now) /\ front_ptr = 0 /\ back_ptr = 0
                        /\ Content(Now, Traversal(Now)) = <<1, 2, 3, 4>>)
        /\ op.n = 5 => (Content(Now, Traversal(Now)) = <<2, 3, 4, 5>>
                        /\ eff.des = <<0>>)
        /\ op.n = 7 => (/\ Content(Now, Traversal(Now)) = <<4, 5>>
                        /\ size(Now) = 2
                        /\ Peek(Now, front_ptr) = 4
                        /\ Peek(Now, BackSlot(Now)) = 5)

\* the end of the script: two elements left, in slots 3 and 0
C23_Witness ==
    /\ op.name = "push_five_into_four"
    /\ op.n = 7
    /\ cap = 4
    /\ mem[3] = 4
    /\ mem[0] = 5
    /\ size(Now) = 2

\* C24: capacity 5, full, 4,5 in slots 3-4 and 1,2,3 in slots 0-2:
\* linearize() leaves 4,5,1,2,3 in slots 0..4, returns slot 0 and
\* is_linearized() is true afterwards.
C24_LinearizeFive ==
    (op.name = "linearize_five") =>
        /\ op.n = 8 => (/\ mem = [p \in 0..4 |-> <<1, 2, 3, 4, 5>>[p + 1]]
                        /\ front_ptr = 3
                        /\ full(Now)
                        /\ ~is_linearized(Now))
        /\ op.n = 9 => (/\ mem = [p \in 0..4 |-> <<4, 5, 1, 2, 3>>[p + 1]]
                        /\ op.ret = 0
                        /\ is_linearized(Now))

\* the state linearize() left
C24_Witness ==
    /\ op.name = "linearize_five"
    /\ op.n = 9
    /\ cap = 5
    /\ mem[0] = 4
    /\ mem[4] = 3
    /\ front_ptr = 0

\* ---- lifetime of the elements --------------------------------------------------
\* the call just made inserted / removed an element
Inserted ==
    \/ op.name = "push_back"
    \/ op.name = "try_push_back" /\ op.ret

Removed ==
    \/ op.name \in {"pop_front", "pop_front_value", "pop_back", "pop_back_value"}
    \/ op.name \in {"try_pop_front", "try_pop_front_value",
                     "try_pop_back", "try_pop_back_value"} /\ op.ret

\* C25: after every single-element call a slot holds a constructed element
\* exactly when it is one of the size() slots from the front slot on (mod
\* capacity); an insertion constructs exactly one element, in a slot that
\* held none, and a removal destroys exactly one element, which was live.
C25_LiveIffOccupied ==
    /\ {p \in 0..(cap - 1) : Live(Now, p)}
          = {LogicalSlots(Now)[i] : i \in 1..size(Now)}
    /\ Cardinality({LogicalSlots(Now)[i] : i \in 1..size(Now)}) = size(Now)
    /\ eff.bad = {}
    /\ Inserted => Len(eff.con) = 1
    /\ Removed => (Len(eff.des) = 1 /\ eff.con = <<>>)
    /\ ~(Inserted \/ Removed) => (eff.des = <<>> /\ eff.con = <<>>)

\* a pop_back that destroyed the element in slot 0 of a wrapped buffer and
\* left the back boundary there
C25_Witness ==
    /\ op.name = "pop_back"
    /\ eff.des = <<0>>
    /\ back_ptr = 0
    /\ front_ptr > 0
    /\ size(Now) = cap - front_ptr
    /\ size(Now) >= 2

\* ---- every constructor, every mutating call --------------------------------------
\* ring_buffer(capacity_size, buffer_size, value [, alloc]) and, with
\* buffer_size = capacity_size, ring_buffer(capacity_size_and_count, value
\* [, alloc]): the overloads without an allocator leave back_ptr at
\* buffer_start when the buffer is full, those with one at buffer_end
Prefilled(maxcap) ==
    /\ cap \in 1..maxcap
    /\ count \in 0..cap
    /\ \E value \in Values :
          mem = [p \in 0..(cap - 1) |-> IF p < count THEN value ELSE Uninit]
    /\ front_ptr = 0
    /\ back_ptr \in {IF count = cap THEN 0 ELSE count, count}
    /\ eff = [des |-> <<>>, con |-> Range(0, count), bad |-> {}]
    /\ op = NoOp
    /\ model = <<>>
    /\ single = FALSE
    /\ trip = Idle

InitAny == Constructed(MaxCapAll) \/ Prefilled(MaxCapAll)

SpecAny == InitAny /\ [][NextAll]_vars

\* C26: in every state left by a constructor or a mutating call the front
\* and back cursors denote slots in [0, capacity), the back cursor never
\* rests at the storage end, and no call constructs, reads or destroys a
\* slot outside [0, capacity).
C26_CursorsInStorage ==
    /\ front_ptr \in 0..(cap - 1)
    /\ back_ptr \in 0..(cap - 1)
    /\ \A ev \in eff.bad : ev[3]
    /\ \A i \in DOMAIN eff.con : eff.con[i] \in 0..(cap - 1)
    /\ \A i \in DOMAIN eff.des : eff.des[i] \in 0..(cap - 1)

\* C27: linearize() on a wrapped buffer reads, swaps or rotates no slot
\* that holds no element, and on return the constructed slots are exactly
\* slots 0 .. size()-1: every filler was destroyed again and no element of
\* the content was destroyed.
C27_LinearizeLifetimes ==
    [][(op'.name = "linearize" /\ single /\ Wrapped(Now)) =>
        /\ eff'.bad = {}
        /\ {p \in 0..(cap - 1) : Live(After, p)} = 0..(size(Now) - 1)
        /\ Len(eff'.des) = Len(eff'.con)
        /\ {eff'.des[i] : i \in DOMAIN eff'.des} = {eff'.con[i] : i \in DOMAIN eff'.con}]_vars

\* ---- clear and destruction after single-element calls -----------------------------
NextClear ==
    \/ Next
    \/ Clear
    \/ SetCapacity(MaxCap)

SpecClear == Init /\ [][NextClear]_vars

\* C28: clear() and the destructor (run by set_capacity), called after
\* single-element calls, destroy exactly the size() live elements, each
\* once, and no slot that holds no element; after clear() the buffer is
\* empty with both cursors at slot 0.
C28_ClearDestroysLive ==
    [][(op'.name \in {"clear", "set_capacity"} /\ single) =>
        /\ eff'.bad = {}
        /\ op'.name = "clear" =>
              /\ ExactlyOnce(eff'.des, {LogicalSlots(Now)[i] : i \in 1..size(Now)})
              /\ empty(After)
              /\ front_ptr' = 0
              /\ back_ptr' = 0]_vars

\* C29: after single-element calls and linearize(), the traversal from
\* begin() reaches end() after exactly size() increments and dereferences
\* only occupied slots.  (A walk of capacity + 1 steps that has not reached
\* end() is on a cycle and never does.)
C29_TraversalTerminates ==
    /\ Len(Traversal(Now)) = size(Now)
    /\ \A i \in DOMAIN Traversal(Now) : Live(Now, Traversal(Now)[i])

\* C30: after single-element calls is_linearized() is true exactly when
\* the occupied range is not split across the storage end; in particular
\* it is true for every empty buffer.
C30_LinearizedIffNotWrapped ==
    /\ is_linearized(Now) <=> ~Wrapped(Now)
    /\ empty(Now) => is_linearized(Now)

====
